---- MODULE Spec2Model ----
(***************************************************************************)
(* The playlist aggregate of oxysound (src/src/playlist.rs) and the        *)
(* metadata provider call it depends on (src/src/youtube_api.rs).          *)
(*                                                                         *)
(* One Playlist value is the state.  Its public operations, add_videos,    *)
(* remove_videos and fetch_metadata, are the actions.  Strings are TLA+    *)
(* strings, Vec<T> is a sequence, Option<T> is a sequence of length 0      *)
(* (None) or 1 (Some), and `as u8` is reduction modulo 2^8.                *)
(***************************************************************************)
EXTENDS Integers, Sequences, FiniteSets, TLC

\* ------------------------------------------------------------- bounds
\* Longest playlist the small id lists may build.
MaxVideos == 3
\* Longest id list given to add_videos / remove_videos.
MaxIds == 2
\* Longest item list in a provider response.
MaxItems == 2

\* -------------------------------------------------- program constants
\* num_items is a u8, and the error counts are cast `as u8`: 2^8 values.
U8Modulus == 256

BASE_URL_VIDEO == "https://www.youtube.com/watch?v="
BASE_URL_PLAYLIST == "http://www.youtube.com/watch_videos?video_ids="

\* ------------------------------------------------------------- inputs
Titles == {"test"}
Ids == {"a", "b", "c"}

\* Sequences over S of length at most n.
SeqUpTo(S, n) == UNION {[1..k -> S] : k \in 0..n}

IdLists == SeqUpTo(Ids, MaxIds)

\* An id list long enough to leave the range of u8: U8Modulus distinct ids.
BulkIds == [i \in 1..U8Modulus |-> "v" \o ToString(i)]

\* Option<String>
None == <<>>
Some(s) == <<s>>

\* ResponseSnippet, with the fields Video::from reads.  The provider's catalog
\* gives each id one snippet: complete, without title, without both.
Snippet(id) ==
    CASE id = "a" -> [title |-> Some("Never Gonna Give You Up"),
                      published_at |-> Some("2009-10-25T06:57:33Z")]
      [] id = "b" -> [title |-> None, published_at |-> Some("2010-01-01T00:00:00Z")]
      [] OTHER    -> [title |-> None, published_at |-> None]

\* ResponseItem
ResponseItems == {[id |-> id, snippet |-> Snippet(id)] : id \in Ids}

\* What make_video_request can return: Err (the config does not load, or the
\* request or its decoding fails) or Ok(Response).
Outcomes ==
    { [kind |-> "Config", items |-> <<>>], [kind |-> "Request", items |-> <<>>] }
    \cup { [kind |-> "Ok", items |-> items] : items \in SeqUpTo(ResponseItems, MaxItems) }

\* ----------------------------------------------------- pure functions
\* Option::unwrap_or_default
unwrap_or_default(o) == IF o = None THEN "" ELSE o[1]

\* `n as u8`
AsU8(n) == n % U8Modulus

\* impl Default for Video
VideoDefault ==
    [id |-> "", title |-> "", published_at |-> "", url |-> BASE_URL_VIDEO, fetched |-> FALSE]

\* Video::update_fields
VideoUpdateFields(video) == [video EXCEPT !.url = BASE_URL_VIDEO \o video.id]

\* impl From<String> for Video
VideoFromString(value) == VideoUpdateFields([VideoDefault EXCEPT !.id = value])

\* impl From<ResponseItem> for Video
VideoFromResponseItem(value) ==
    VideoUpdateFields([VideoDefault EXCEPT
        !.id = value.id,
        !.title = unwrap_or_default(value.snippet.title),
        !.published_at = unwrap_or_default(value.snippet.published_at),
        !.fetched = TRUE])

\* impl PartialEq for Video
VideoEq(self, other) == self.id = other.id

\* Vec::contains, with Video's PartialEq
Contains(vs, video) == \E i \in 1..Len(vs) : VideoEq(vs[i], video)

\* [String]::contains
ContainsId(ids, id) == \E i \in 1..Len(ids) : ids[i] = id

\* [String]::join, over strs[lo..hi]; halving keeps the evaluation shallow.
RECURSIVE JoinRange(_, _, _, _)
JoinRange(strs, sep, lo, hi) ==
    IF lo > hi THEN ""
    ELSE IF lo = hi THEN strs[lo]
    ELSE LET mid == (lo + hi) \div 2
         IN  JoinRange(strs, sep, lo, mid) \o sep \o JoinRange(strs, sep, mid + 1, hi)

Join(strs, sep) == JoinRange(strs, sep, 1, Len(strs))

\* Playlist::compose_playlist_url
VideoId(video) == video.id

\* compose_playlist_url with a ',' behind every id instead of between the ids.
compose_playlist_url_trailing(vs) ==
    LET ids == [i \in 1..Len(vs) |-> vs[i].id \o ","]
    IN  BASE_URL_PLAYLIST \o Join(ids, "")

compose_playlist_url(vs) ==
    LET ids == [i \in 1..Len(vs) |-> VideoId(vs[i])]
    IN  BASE_URL_PLAYLIST \o Join(ids, ",")

\* add_videos with the new videos put in front of the members.
add_videos_videos_front(self_videos, ids) ==
    [i \in 1..Len(ids) |-> [id |-> ids[i], title |-> "", published_at |-> "",
                            url |-> BASE_URL_VIDEO \o ids[i], fetched |-> FALSE]]
        \o self_videos

\* The videos add_videos leaves: lines 148-155.
AddKeep(self_videos, video) == ~Contains(self_videos, video)
add_videos_videos(self_videos, ids) ==
    LET new == [i \in 1..Len(ids) |-> VideoFromString(ids[i])]
        kept(video) == AddKeep(self_videos, video)
    IN  self_videos \o SelectSeq(new, kept)

\* The videos remove_videos leaves: line 164.
RemoveKeep(ids, video) == ~ContainsId(ids, video.id)

\* remove_videos that does not keep the order of the videos it leaves.
remove_videos_videos_unordered(self_videos, ids) ==
    LET kept(video) == RemoveKeep(ids, video)
        left == SelectSeq(self_videos, kept)
    IN  [i \in 1..Len(left) |-> left[Len(left) + 1 - i]]

remove_videos_videos(self_videos, ids) ==
    LET kept(video) == RemoveKeep(ids, video)
    IN  SelectSeq(self_videos, kept)

\* fetch_metadata, lines 186-191: the ids it requests.
NotFetched(video) == ~video.fetched
RequestIds(self_videos) ==
    LET unfetched == SelectSeq(self_videos, NotFetched)
    IN  [i \in 1..Len(unfetched) |-> VideoId(unfetched[i])]

\* The merge without `retain`: the unfetched placeholders stay.
MergeFetchedNoRetain(self_videos, items) ==
    self_videos \o [i \in 1..Len(items) |->
        [id |-> items[i].id,
         title |-> IF items[i].snippet.title = <<>> THEN "" ELSE items[i].snippet.title[1],
         published_at |-> IF items[i].snippet.published_at = <<>> THEN ""
                          ELSE items[i].snippet.published_at[1],
         url |-> BASE_URL_VIDEO \o items[i].id,
         fetched |-> TRUE]]

\* fetch_metadata, lines 204-205: the merge on success.
IsFetched(video) == video.fetched
MergeFetched(self_videos, items) ==
    LET newly_fetched == [i \in 1..Len(items) |-> VideoFromResponseItem(items[i])]
    IN  SelectSeq(self_videos, IsFetched) \o newly_fetched

\* Result<()>
Ok == [kind |-> "Ok", args |-> <<>>]
Err(kind, args) == [kind |-> kind, args |-> args]

\* ------------------------------------------------------ serde_json
\* A file's text, as its JSON tokens: punctuation, keys, strings, numbers (in
\* decimal) and the literals true / false / null.  The empty file has none.
Tok(t, v) == [t |-> t, v |-> v]

\* Rust Playlist values outside the running Playlist: a record.
PlaylistOf(t, n, vs, u) == [title |-> t, num_items |-> n, videos |-> vs, url |-> u]

\* A Video serialized without its fetched flag (written as false).
VideoJson_fetched_lost(video) ==
    << Tok("{", ""),
       Tok("key", "id"), Tok("str", video.id),
       Tok("key", "title"), Tok("str", video.title),
       Tok("key", "publishedAt"), Tok("str", video.published_at),
       Tok("key", "url"), Tok("str", video.url),
       Tok("key", "fetched"), Tok("lit", "false"),
       Tok("}", "") >>

\* #[derive(Serialize)] #[serde(rename_all = "camelCase")] struct Video
VideoJson(video) ==
    << Tok("{", ""),
       Tok("key", "id"), Tok("str", video.id),
       Tok("key", "title"), Tok("str", video.title),
       Tok("key", "publishedAt"), Tok("str", video.published_at),
       Tok("key", "url"), Tok("str", video.url),
       Tok("key", "fetched"), Tok("lit", IF video.fetched THEN "true" ELSE "false"),
       Tok("}", "") >>

\* Tokens of one serialized Video.
VideoJsonLen == 12

\* serde_json::to_string(&Playlist)
to_string(p) ==
    LET n == Len(p.videos)
        items == [i \in 1..(VideoJsonLen * n) |->
                     VideoJson(p.videos[((i - 1) \div VideoJsonLen) + 1])
                         [((i - 1) % VideoJsonLen) + 1]]
    IN  << Tok("{", ""),
           Tok("key", "title"), Tok("str", p.title),
           Tok("key", "numItems"), Tok("num", ToString(p.num_items)),
           Tok("key", "videos"), Tok("[", "") >>
        \o items
        \o << Tok("]", ""),
              Tok("key", "url"), Tok("str", p.url),
              Tok("}", "") >>

\* Result<Option<Playlist>> of the parse.
JsonErr == [kind |-> "Json", value |-> <<>>]
JsonOk(option) == [kind |-> "Ok", value |-> option]

\* Deserialize for u8: a decimal number in 0..255.
IsU8(text) == \E n \in 0..(U8Modulus - 1) : ToString(n) = text
ParseU8(text) == CHOOSE n \in 0..(U8Modulus - 1) : ToString(n) = text

\* #[derive(Deserialize)] struct Video, at toks[pos]: every field once, in any
\* order, each of its type.
VideoKeys == {"id", "title", "publishedAt", "url", "fetched"}
VideoAt(toks, pos) ==
    LET keyAt(i) == toks[pos + 2 * i - 1]
        valAt(i) == toks[pos + 2 * i]
        member(k) == CHOOSE i \in 1..5 : keyAt(i).v = k
        val(k) == valAt(member(k))
        ok == /\ pos + VideoJsonLen - 1 <= Len(toks)
              /\ toks[pos].t = "{"
              /\ toks[pos + VideoJsonLen - 1].t = "}"
              /\ \A i \in 1..5 : keyAt(i).t = "key"
              /\ {keyAt(i).v : i \in 1..5} = VideoKeys
              /\ \A k \in VideoKeys \ {"fetched"} : val(k).t = "str"
              /\ val("fetched").t = "lit" /\ val("fetched").v \in {"true", "false"}
    IN  IF ok
        THEN [ok |-> TRUE,
              video |-> [id |-> val("id").v, title |-> val("title").v,
                         published_at |-> val("publishedAt").v, url |-> val("url").v,
                         fetched |-> val("fetched").v = "true"]]
        ELSE [ok |-> FALSE, video |-> VideoDefault]

\* Vec<Video> behind the '[' at toks[pos - 1]: the videos up to the ']'.
VideosAt(toks, pos) ==
    LET slots == 0..((Len(toks) - pos) \div VideoJsonLen)
        closes(n) == /\ pos + VideoJsonLen * n <= Len(toks)
                     /\ toks[pos + VideoJsonLen * n].t = "]"
                     /\ \A m \in 0..(n - 1) : VideoAt(toks, pos + VideoJsonLen * m).ok
    IN  IF \E n \in slots : closes(n)
        THEN LET n == CHOOSE k \in slots : closes(k) /\ \A m \in slots : closes(m) => k <= m
             IN  [ok |-> TRUE,
                  videos |-> [i \in 1..n |-> VideoAt(toks, pos + VideoJsonLen * (i - 1)).video],
                  next |-> pos + VideoJsonLen * n + 1]
        ELSE [ok |-> FALSE, videos |-> <<>>, next |-> pos]

\* #[derive(Deserialize)] struct Playlist: the members from toks[pos] on, with
\* `acc` what the members before gave.  A field given twice, a key that is no
\* field, a value of another type or a missing '}' is an error.
PlaylistKeys == {"title", "numItems", "videos", "url"}
RECURSIVE PlaylistMembers(_, _, _)
PlaylistMembers(toks, pos, acc) ==
    IF pos > Len(toks) THEN JsonErr
    ELSE IF toks[pos].t = "}"
    THEN IF pos = Len(toks) /\ acc.have = PlaylistKeys
         THEN JsonOk(<<PlaylistOf(acc.title, acc.num_items, acc.videos, acc.url)>>)
         ELSE JsonErr
    ELSE IF toks[pos].t # "key" \/ toks[pos].v \notin PlaylistKeys
            \/ toks[pos].v \in acc.have \/ pos = Len(toks)
    THEN JsonErr
    ELSE LET key == toks[pos].v
             val == toks[pos + 1]
             have == acc.have \cup {key}
         IN  CASE key = "title" ->
                    IF val.t = "str"
                    THEN PlaylistMembers(toks, pos + 2,
                             [acc EXCEPT !.have = have, !.title = val.v])
                    ELSE JsonErr
               [] key = "url" ->
                    IF val.t = "str"
                    THEN PlaylistMembers(toks, pos + 2,
                             [acc EXCEPT !.have = have, !.url = val.v])
                    ELSE JsonErr
               [] key = "numItems" ->
                    IF val.t = "num" /\ IsU8(val.v)
                    THEN PlaylistMembers(toks, pos + 2,
                             [acc EXCEPT !.have = have, !.num_items = ParseU8(val.v)])
                    ELSE JsonErr
               [] OTHER ->
                    IF val.t = "[" /\ VideosAt(toks, pos + 2).ok
                    THEN PlaylistMembers(toks, VideosAt(toks, pos + 2).next,
                             [acc EXCEPT !.have = have,
                                         !.videos = VideosAt(toks, pos + 2).videos])
                    ELSE JsonErr

\* A parse that takes the empty text for null.
from_str_empty_is_null(toks) ==
    IF toks = <<>> \/ toks = <<Tok("lit", "null")>> THEN JsonOk(<<>>)
    ELSE IF toks[1].t = "{"
    THEN PlaylistMembers(toks, 2,
             [have |-> {}, title |-> "", num_items |-> 0, videos |-> <<>>, url |-> ""])
    ELSE JsonErr

\* serde_json::from_str::<Option<Playlist>>: the empty text is an error, null
\* is None, an object is Some(Playlist).
from_str(toks) ==
    IF toks = <<>> THEN JsonErr
    ELSE IF toks = <<Tok("lit", "null")>> THEN JsonOk(<<>>)
    ELSE IF toks[1].t = "{"
    THEN PlaylistMembers(toks, 2,
             [have |-> {}, title |-> "", num_items |-> 0, videos |-> <<>>, url |-> ""])
    ELSE JsonErr


\* ------------------------------------------------------------ the store
\* One file of the save directory: absent, or its text.
NoFile == [exists |-> FALSE, content |-> <<>>]
File(content) == [exists |-> TRUE, content |-> content]

\* args.operation: Add / Remove with a title and ids, Print with either.
NoCommand == [operation |-> "-", by |-> "-", title |-> "", ids |-> <<>>]
RunIds == {"a", "b"}
RunIdLists == SeqUpTo(RunIds, MaxIds)
Commands ==
    [operation : {"Add", "Remove"}, by : {"title"}, title : Titles, ids : RunIdLists]
    \cup [operation : {"Print"}, by : {"title"}, title : Titles, ids : {<<>>}]
    \cup [operation : {"Print"}, by : {"ids"}, title : {""}, ids : RunIdLists]

\* What the provider may answer during run: as Outcomes, about RunIds.
RunOutcomes ==
    {o \in Outcomes : \A i \in 1..Len(o.items) : o.items[i].id \in RunIds}

\* impl Default for Playlist
PlaylistDefault == PlaylistOf("untitled", 0, <<>>, BASE_URL_PLAYLIST)

\* -------------------------------------------------------------- state
VARIABLES
    title, num_items, videos, url,   \* the Playlist
    op,                              \* the operation that ran last
    result,                          \* what it returned
    len_before,                      \* videos.len() when it was called
    num_requested,                   \* fetch_metadata: ids.len()
    http_requests,                   \* requests it sent to the provider
    files,                           \* the save directory: title -> <title>.json
    pc,                              \* run: the call it makes next, or "exit"
    cmd,                             \* run: args.operation
    loaded,                          \* run: what load_playlist returned
    trace,                           \* run: the calls made so far, in order
    stranded                         \* titles whose first Add failed in fetch_metadata

playlist == <<title, num_items, videos, url>>
call == <<op, result, len_before, num_requested, http_requests>>
run_vars == <<files, pc, cmd, loaded, trace, stranded>>
vars == <<title, num_items, videos, url, op, result, len_before, num_requested,
          http_requests, files, pc, cmd, loaded, trace, stranded>>

\* Playlist::update_fields, applied to the videos the operation leaves.
update_fields(vs) ==
    /\ num_items' = AsU8(Len(vs))
    /\ url' = compose_playlist_url(vs)

\* Playlist::new(title)
Init ==
    /\ title \in Titles
    /\ videos = <<>>
    /\ num_items = AsU8(Len(videos))
    /\ url = compose_playlist_url(videos)
    /\ op = "new"
    /\ result = Ok
    /\ len_before = 0
    /\ num_requested = 0
    /\ http_requests = 0
    /\ files = [t \in Titles |-> NoFile]
    /\ pc = "exit"
    /\ cmd = NoCommand
    /\ loaded = "-"
    /\ trace = <<>>
    /\ stranded = {}

\* Playlist::add_videos(ids)
add_videos(ids) ==
    /\ \/ Len(videos) + Len(ids) <= MaxVideos
       \/ videos = <<>> /\ ids = BulkIds
    /\ videos' = add_videos_videos(videos, ids)
    /\ update_fields(add_videos_videos(videos, ids))
    /\ title' = title
    /\ op' = "add_videos"
    /\ result' = Ok
    /\ len_before' = Len(videos)
    /\ num_requested' = 0
    /\ http_requests' = 0

\* Playlist::remove_videos(ids)
remove_videos(ids) ==
    /\ videos' = remove_videos_videos(videos, ids)
    /\ update_fields(remove_videos_videos(videos, ids))
    /\ title' = title
    /\ op' = "remove_videos"
    /\ result' = Ok
    /\ len_before' = Len(videos)
    /\ num_requested' = 0
    /\ http_requests' = 0

\* Playlist::fetch_metadata(), with `outcome` what make_video_request returns.
fetch_metadata(outcome) ==
    LET ids == RequestIds(videos)
        num_fetched == Len(outcome.items)
    IN  /\ op' = "fetch_metadata"
        /\ len_before' = Len(videos)
        /\ num_requested' = Len(ids)
        /\ http_requests' = IF outcome.kind = "Config" THEN 0 ELSE 1
        /\ title' = title
        /\ num_items' = num_items
        /\ url' = url
        /\ IF outcome.kind # "Ok"
           THEN /\ result' = Err(outcome.kind, <<>>)
                /\ videos' = videos
           ELSE IF num_fetched = Len(ids)
           THEN /\ result' = Ok
                /\ videos' = MergeFetched(videos, outcome.items)
           ELSE /\ result' = Err("NotEnoughResponseItems",
                                 <<AsU8(Len(ids)), AsU8(num_fetched)>>)
                /\ videos' = videos

AddInputs == IdLists \cup {BulkIds}

Next ==
    \/ \E ids \in AddInputs : add_videos(ids) /\ UNCHANGED run_vars
    \/ \E ids \in AddInputs : remove_videos(ids) /\ UNCHANGED run_vars
    \/ \E outcome \in Outcomes : fetch_metadata(outcome) /\ UNCHANGED run_vars

Spec == Init /\ [][Next]_vars

\* ---------------------------------------------------------------- run
\* One invocation of run(args, save_directory) at a time, a call per step.  The
\* file system does what it is asked: a file that exists is read, and creating
\* and writing succeed.

\* The call made in this step, for the trace.
Called == [op |-> op', kind |-> result'.kind, http |-> http_requests']

\* The number of videos in a file's text, to keep Add within MaxVideos.
StoredLen(file) ==
    IF file.content = <<>>
    THEN 0
    ELSE (Len(file.content) - Len(to_string(PlaylistDefault))) \div VideoJsonLen

\* run, lines 22-27: a new process, no playlist yet.
RunStart(c) ==
    /\ pc = "exit"
    /\ c.operation = "Add" => Len(c.ids) + StoredLen(files[c.title]) <= MaxVideos
    /\ cmd' = c
    /\ pc' = IF c.by = "ids" THEN "default" ELSE "load_playlist"
    /\ title' = PlaylistDefault.title
    /\ num_items' = PlaylistDefault.num_items
    /\ videos' = PlaylistDefault.videos
    /\ url' = PlaylistDefault.url
    /\ op' = "run"
    /\ result' = Ok
    /\ len_before' = 0
    /\ num_requested' = 0
    /\ http_requests' = 0
    /\ loaded' = "-"
    /\ trace' = <<>>
    /\ UNCHANGED <<files, stranded>>

\* load_or_create_file: the text of the file, or None after creating it empty.
load_or_create_file(file) ==
    IF file.exists
    THEN [file |-> file, text |-> <<file.content>>]
    ELSE [file |-> File(<<>>), text |-> <<>>]

\* load_playlist: Ok(None) for a file just created, else what from_str makes of
\* the text.
load_playlist(file) ==
    LET got == load_or_create_file(file)
    IN  IF got.text = <<>>
        THEN [file |-> got.file, ret |-> JsonOk(<<>>)]
        ELSE [file |-> got.file, ret |-> from_str(got.text[1])]

\* add / remove / print, the `match playlist::load_playlist(..)?`: the loaded
\* playlist, or Playlist::new(title) for None; an error ends run.
RunLoad ==
    LET got == load_playlist(files[cmd.title])
        p == IF got.ret.value = <<>>
             THEN PlaylistOf(cmd.title, AsU8(0), <<>>, compose_playlist_url(<<>>))
             ELSE got.ret.value[1]
    IN  /\ pc = "load_playlist"
        /\ files' = [files EXCEPT ![cmd.title] = got.file]
        /\ op' = "load_playlist"
        /\ len_before' = 0
        /\ num_requested' = 0
        /\ http_requests' = 0
        /\ UNCHANGED <<cmd, stranded>>
        /\ IF got.ret.kind # "Ok"
           THEN /\ result' = Err(got.ret.kind, <<>>)
                /\ loaded' = "Err"
                /\ pc' = "exit"
                /\ UNCHANGED playlist
           ELSE /\ result' = Ok
                /\ loaded' = IF got.ret.value = <<>> THEN "None" ELSE "Some"
                /\ title' = p.title
                /\ num_items' = p.num_items
                /\ videos' = p.videos
                /\ url' = p.url
                /\ pc' = CASE cmd.operation = "Add" -> "add_videos"
                           [] cmd.operation = "Remove" -> "remove_videos"
                           [] OTHER -> "exit"
        /\ trace' = Append(trace, Called)

\* print, lines 123-125: Playlist::default()
RunDefault ==
    /\ pc = "default"
    /\ pc' = "add_videos"
    /\ UNCHANGED <<playlist, call, files, cmd, loaded, trace, stranded>>

\* add, line 74, and print, line 125: playlist.add_videos(&ids)
RunAddVideos ==
    /\ pc = "add_videos"
    /\ add_videos(cmd.ids)
    /\ pc' = IF cmd.operation = "Add" THEN "fetch_metadata" ELSE "exit"
    /\ trace' = Append(trace, Called)
    /\ UNCHANGED <<files, cmd, loaded, stranded>>

\* remove, line 98: playlist.remove_videos(&ids)
RunRemoveVideos ==
    /\ pc = "remove_videos"
    /\ remove_videos(cmd.ids)
    /\ pc' = "save_playlist"
    /\ trace' = Append(trace, Called)
    /\ UNCHANGED <<files, cmd, loaded, stranded>>

\* add, line 75: playlist.fetch_metadata().await?
RunFetchMetadata(outcome) ==
    /\ pc = "fetch_metadata"
    /\ fetch_metadata(outcome)
    /\ pc' = IF result' = Ok THEN "save_playlist" ELSE "exit"
    /\ trace' = Append(trace, Called)
    /\ stranded' = IF loaded = "None" /\ result'.kind \in {"Request", "NotEnoughResponseItems"}
                   THEN stranded \cup {cmd.title}
                   ELSE stranded
    /\ UNCHANGED <<files, cmd, loaded>>

\* run, lines 50-52, and Playlist::save_playlist: the file named by self.title
\* is overwritten with the serialized playlist.
RunSave ==
    /\ pc = "save_playlist"
    /\ files' = [files EXCEPT
                   ![title] = File(to_string(PlaylistOf(title, num_items, videos, url)))]
    /\ op' = "save_playlist"
    /\ result' = Ok
    /\ len_before' = Len(videos)
    /\ num_requested' = 0
    /\ http_requests' = 0
    /\ pc' = "exit"
    /\ trace' = Append(trace, Called)
    /\ UNCHANGED <<playlist, cmd, loaded, stranded>>

NextRun ==
    \/ \E c \in Commands : RunStart(c)
    \/ RunLoad
    \/ RunDefault
    \/ RunAddVideos
    \/ RunRemoveVideos
    \/ \E outcome \in RunOutcomes : RunFetchMetadata(outcome)
    \/ RunSave

SpecRun == Init /\ [][NextRun]_vars

\* ------------------------------------------------------------- claims
\* How often id occurs in vs.
Count(vs, id) == Cardinality({i \in 1..Len(vs) : vs[i].id = id})

\* C1: in every reachable state no two elements of videos have the same id.
C1_UniqueIds ==
    \A i \in 1..Len(videos) : \A j \in 1..Len(videos) :
        i # j => videos[i].id # videos[j].id

\* C2: after every add_videos, remove_videos and fetch_metadata call the stored
\* url is the base URL followed by the ids of videos, in order, joined by ','.
C2_UrlConsistent == url = compose_playlist_url(videos)

\* C3: after every add_videos, remove_videos and fetch_metadata call num_items
\* is the number of elements of videos, whatever that number is.
C3_ItemCount == num_items = Len(videos)

\* C4: when fetch_metadata requests R ids and the provider returns F < R
\* records, the call fails with NotEnoughResponseItems carrying exactly (R, F)
\* and leaves title, videos, num_items and url as they were.
C4_IncompleteResponse ==
    [][ op' = "fetch_metadata" =>
          \A outcome \in Outcomes :
              ( /\ fetch_metadata(outcome)
                /\ outcome.kind = "Ok"
                /\ Len(outcome.items) < Len(RequestIds(videos)) )
              => /\ result' = Err("NotEnoughResponseItems",
                                  <<Len(RequestIds(videos)), Len(outcome.items)>>)
                 /\ playlist' = playlist ]_vars

\* C4, the part about the playlist alone: an incomplete response merges nothing.
C4_NoPartialMerge ==
    [][ (op' = "fetch_metadata" /\ result'.kind = "NotEnoughResponseItems")
          => playlist' = playlist ]_vars

\* C5: fetch_metadata on a playlist without unfetched videos succeeds and
\* sends nothing to the metadata provider.
C5_EmptyRequestSet ==
    (op = "fetch_metadata" /\ num_requested = 0)
        => (result = Ok /\ http_requests = 0)

\* Index in vs of its k-th video with fetched = TRUE.
NthFetched(vs, k) ==
    CHOOSE j \in 1..Len(vs) :
        /\ vs[j].fetched
        /\ Cardinality({m \in 1..j : vs[m].fetched}) = k

\* The video a provider record stands for.
RecordVideo(item) ==
    [id |-> item.id,
     title |-> IF item.snippet.title = <<>> THEN "" ELSE item.snippet.title[1],
     published_at |-> IF item.snippet.published_at = <<>> THEN ""
                      ELSE item.snippet.published_at[1],
     url |-> BASE_URL_VIDEO \o item.id,
     fetched |-> TRUE]

ReconcileResult(old, items, new) ==
    LET k == Cardinality({j \in 1..Len(old) : old[j].fetched})
    IN  /\ Len(new) = k + Len(items)
        /\ \A i \in 1..k : new[i] = old[NthFetched(old, i)]
        /\ \A j \in 1..Len(items) : new[k + j] = RecordVideo(items[j])
        /\ \A i \in 1..Len(new) : new[i].fetched

\* C6: when fetch_metadata succeeds (F = R), videos becomes the previously
\* fetched videos, unchanged and in their previous order, followed by one video
\* per provider record in response order, each with fetched = TRUE, url derived
\* from the record's id and title / published_at taken from the record or empty
\* when the record omits them; no video with fetched = FALSE remains.
C6_ReconcileResult ==
    [][ (op' = "fetch_metadata" /\ result' = Ok) =>
          \A outcome \in Outcomes :
              fetch_metadata(outcome) => ReconcileResult(videos, outcome.items, videos') ]_vars

\* C6 happens: a successful fetch_metadata kept two fetched videos in order and
\* appended the video of one record, which carried neither title nor date.
C6_Witness ==
    /\ op = "fetch_metadata"
    /\ result = Ok
    /\ num_requested = 1
    /\ Len(videos) = 3
    /\ videos[1].id = "b" /\ videos[2].id = "a" /\ videos[3].id = "c"
    /\ videos[1].title = "" /\ videos[1].published_at # ""
    /\ videos[2].title # "" /\ videos[2].published_at # ""
    /\ videos[3].title = "" /\ videos[3].published_at = ""

Range(s) == {s[i] : i \in 1..Len(s)}

\* C7: an id that occurs more than once in the list given to one add_videos call
\* and is not yet a member is appended exactly once, an id that is already a
\* member is not appended, and the call returns no error.
C7_InCallDedup ==
    [][ op' = "add_videos" =>
          \A ids \in AddInputs :
              add_videos(ids) =>
                  /\ result' = Ok
                  /\ \A x \in Range(ids) :
                         Count(videos', x) =
                             IF Count(videos, x) > 0 THEN Count(videos, x) ELSE 1 ]_vars

\* C8: for every playlist p and id x, add_videos(p, [x]) followed by
\* add_videos(p, [x]) leaves exactly one entry for x, and the second call changes
\* neither videos nor the derived fields.  p is the playlist of the current state.
C8_DedupIdempotent ==
    \A x \in Ids :
        LET once == add_videos_videos(videos, <<x>>)
            twice == add_videos_videos(once, <<x>>)
        IN  /\ Count(twice, x) = 1
            /\ twice = once
            /\ AsU8(Len(twice)) = AsU8(Len(once))
            /\ compose_playlist_url(twice) = compose_playlist_url(once)

\* C8, the second call alone: add_videos of one id that is a member changes
\* nothing of the playlist.
C8_SecondCallNoChange ==
    [][ op' = "add_videos" =>
          \A x \in Ids :
              (add_videos(<<x>>) /\ Count(videos, x) > 0 /\ op = "add_videos")
                  => playlist' = playlist ]_vars

\* The video add_videos makes of an id.
FreshVideo(id) ==
    [id |-> id, title |-> "", published_at |-> "", url |-> BASE_URL_VIDEO \o id,
     fetched |-> FALSE]

AddResult(old, ids, new) ==
    LET n == Len(old)
        fresh == {i \in 1..Len(ids) : \A j \in 1..n : old[j].id # ids[i]}
    IN  /\ Len(new) = n + Cardinality(fresh)
        /\ \A j \in 1..n : new[j] = old[j]
        /\ \A i \in fresh :
               new[n + Cardinality({m \in fresh : m <= i})] = FreshVideo(ids[i])

C10_RemoveSemantics ==
    [][ op' = "remove_videos" =>
          \A ids \in AddInputs :
              remove_videos(ids) =>
                  LET left == {j \in 1..Len(videos) : videos[j].id \notin Range(ids)}
                  IN  /\ result' = Ok
                      /\ Len(videos') = Cardinality(left)
                      /\ \A j \in left :
                             videos'[Cardinality({m \in left : m <= j})] = videos[j]
                      /\ num_items' = AsU8(Len(videos'))
                      /\ url' = compose_playlist_url(videos')
                      /\ (left = 1..Len(videos) => playlist' = playlist) ]_vars

\* C10 without its last part: what remove_videos retains and recomputes.
C10_RemoveRetains ==
    [][ op' = "remove_videos" =>
          \A ids \in AddInputs :
              remove_videos(ids) =>
                  LET left == {j \in 1..Len(videos) : videos[j].id \notin Range(ids)}
                  IN  /\ result' = Ok
                      /\ Len(videos') = Cardinality(left)
                      /\ \A j \in left :
                             videos'[Cardinality({m \in left : m <= j})] = videos[j]
                      /\ num_items' = AsU8(Len(videos'))
                      /\ url' = compose_playlist_url(videos') ]_vars

\* C11: compose_playlist_url returns the fixed base URL followed by the ids of
\* the videos, in order, joined by ','; for no videos it returns exactly the base
\* URL, which is also the url of Playlist::new(title).  Stated by induction on
\* the videos of the current state: the url of a sequence is the url of the
\* sequence without its last video, then ',' unless that is empty, then the id
\* of the last video.
C11_UrlComposition ==
    LET n == Len(videos)
    IN  /\ compose_playlist_url(<<>>) = "http://www.youtube.com/watch_videos?video_ids="
        /\ n > 0 =>
               compose_playlist_url(videos) =
                   compose_playlist_url(SubSeq(videos, 1, n - 1))
                       \o (IF n = 1 THEN "" ELSE ",") \o videos[n].id
        /\ op = "new" => url = "http://www.youtube.com/watch_videos?video_ids="

\* C11 happens: three videos, and their composed url.
C11_Witness ==
    /\ op = "add_videos"
    /\ Len(videos) = 3
    /\ videos[1].id = "b" /\ videos[2].id = "c" /\ videos[3].id = "a"
    /\ compose_playlist_url(videos) = "http://www.youtube.com/watch_videos?video_ids=b,c,a"
    /\ url = "http://www.youtube.com/watch_videos?video_ids=b,c,a"

\* C16: in every reachable state all videos with fetched = TRUE precede all
\* videos with fetched = FALSE.
C16_FetchedPrefix ==
    \A i \in 1..Len(videos) : \A j \in 1..Len(videos) :
        i < j => ~(~videos[i].fetched /\ videos[j].fetched)

\* C16 happens: remove_videos took one of three videos and left a fetched video
\* in front of an unfetched one.
C16_Witness ==
    /\ op = "remove_videos"
    /\ len_before = 3
    /\ Len(videos) = 2
    /\ videos[1].fetched
    /\ ~videos[2].fetched


\* C12: after save_playlist has written a playlist p, load_playlist of p's title
\* returns Some(q) with q equal to p in title, num_items, videos (each video in
\* every field) and url, and leaves the file as it is, whatever the file held
\* before the save.
C12_RoundTrip ==
    op = "save_playlist" =>
        /\ load_playlist(files[title]).ret
               = JsonOk(<<PlaylistOf(title, num_items, videos, url)>>)
        /\ load_playlist(files[title]).file = files[title]

\* An Add that loaded an older playlist has saved two fetched videos over it.
C12_Witness ==
    /\ op = "save_playlist" /\ cmd.operation = "Add" /\ loaded = "Some"
    /\ Len(videos) = 2 /\ videos[1].fetched /\ videos[2].fetched
    /\ videos[1].title # "" /\ videos[2].title = ""
    /\ from_str(files[title].content).value[1].videos = videos

\* C13: load_playlist of a title without a file creates the empty file and
\* returns Ok(None); load_playlist of a title whose file is empty fails with
\* the Json error and leaves the file empty.
C13_FreshFileSignal ==
    [][ (pc = "load_playlist" /\ op' = "load_playlist") =>
            /\ files[cmd.title] = NoFile =>
                   /\ files'[cmd.title] = File(<<>>)
                   /\ result' = Ok
                   /\ loaded' = "None"
            /\ files[cmd.title] = File(<<>>) =>
                   /\ result' = Err("Json", <<>>)
                   /\ loaded' = "Err"
                   /\ files' = files
      ]_vars

\* A load has failed with the Json error on the file an earlier load created.
C13_Witness ==
    /\ op = "load_playlist" /\ result = Err("Json", <<>>)
    /\ files[cmd.title] = File(<<>>)


\* C14: no step of a Print invocation, by title or by ids, changes the store:
\* the files that exist and the text of each stay as they were.
C14_PrintDoesNotPersist ==
    [][ cmd'.operation = "Print" => files' = files ]_vars

\* What a Print does to the store: by ids nothing, by title nothing to a file
\* that exists, and a title without a file gets the empty file.
C14_PrintCreatesEmptyFile ==
    [][ cmd'.operation = "Print" =>
            \A t \in Titles :
                \/ files'[t] = files[t]
                \/ /\ cmd.by = "title" /\ cmd.title = t
                   /\ files[t] = NoFile /\ files'[t] = File(<<>>)
      ]_vars

\* The calls of a trace, by name.
Calls(tr) == [i \in 1..Len(tr) |-> tr[i].op]
IsPrefix(s, t) == Len(s) <= Len(t) /\ s = SubSeq(t, 1, Len(s))
AddCalls == <<"load_playlist", "add_videos", "fetch_metadata", "save_playlist">>
RemoveCalls == <<"load_playlist", "remove_videos", "save_playlist">>

\* C15: an Add invocation that has ended made its calls in the order load,
\* add_videos, fetch_metadata, save, called fetch_metadata, and called save only
\* after fetch_metadata returned Ok; a Remove invocation that has ended called
\* load, remove_videos and save, and no call of it sent a request to the
\* provider.
C15_OperationOrdering ==
    pc = "exit" =>
        /\ cmd.operation = "Add" =>
              /\ IsPrefix(Calls(trace), AddCalls)
              /\ \E i \in 1..Len(trace) : trace[i].op = "fetch_metadata"
              /\ \A i \in 1..Len(trace) :
                     trace[i].op = "save_playlist" =>
                         trace[i - 1].op = "fetch_metadata" /\ trace[i - 1].kind = "Ok"
        /\ cmd.operation = "Remove" =>
              /\ Calls(trace) = RemoveCalls
              /\ \A i \in 1..Len(trace) : trace[i].http = 0

\* What holds of the order: the calls made so far are always a prefix of the
\* operation's sequence, no call of Remove reaches the provider, and an
\* invocation whose load returned Ok ends as C15 says.
C15_OrderingOnceLoaded ==
    /\ cmd.operation = "Add" => IsPrefix(Calls(trace), AddCalls)
    /\ cmd.operation = "Remove" =>
          /\ IsPrefix(Calls(trace), RemoveCalls)
          /\ \A i \in 1..Len(trace) : trace[i].http = 0
    /\ (pc = "exit" /\ loaded \in {"None", "Some"}) =>
          /\ cmd.operation = "Add" =>
                /\ Len(trace) >= 3
                /\ trace[3].kind = "Ok" <=> Calls(trace) = AddCalls
          /\ cmd.operation = "Remove" => Calls(trace) = RemoveCalls

\* The videos of the playlist in a file, none if the text is no playlist.
StoredVideos(file) ==
    IF from_str(file.content).kind = "Ok" /\ from_str(file.content).value # <<>>
    THEN from_str(file.content).value[1].videos
    ELSE <<>>

\* C17: once an Add on a title without a file has failed in fetch_metadata
\* with a transport error or an incomplete response, an Add on that title that
\* ends without a failure of the provider has returned Ok after saving, and the
\* saved playlist has every id it was given.
C17_RecoveryAfterFailedAdd ==
    ( /\ pc = "exit" /\ cmd.operation = "Add" /\ cmd.title \in stranded
      /\ \A i \in 1..Len(trace) :
             trace[i].op = "fetch_metadata" => trace[i].kind = "Ok" )
    => /\ op = "save_playlist" /\ result = Ok
       /\ \A i \in 1..Len(cmd.ids) :
              \E j \in 1..Len(StoredVideos(files[cmd.title])) :
                  StoredVideos(files[cmd.title])[j].id = cmd.ids[i]

\* What happens instead: the title's file stays empty, and every later
\* invocation on the title ends in load_playlist with the Json error.
C17_StrandedForever ==
    \A t \in stranded :
        /\ files[t] = File(<<>>)
        /\ (pc = "exit" /\ cmd.by = "title" /\ cmd.title = t) =>
               \/ Calls(trace) = <<"load_playlist">> /\ result = Err("Json", <<>>)
               \/ /\ Calls(trace) = <<"load_playlist", "add_videos", "fetch_metadata">>
                  /\ loaded = "None" /\ result.kind \in {"Request", "NotEnoughResponseItems"}

====
